---- MODULE Spec2Model ----
(***************************************************************************)
(* Session lifecycle of frontend/src/App.jsx (component App): the React    *)
(* state sessions/loading/error/launchingBrowser, the ref sessionsRef, the *)
(* handlers launchBrowser, cleanupSession and handleBeforeUnload, and the  *)
(* remote calls they leave in flight.                                      *)
(*                                                                         *)
(* JavaScript runs the handlers on one thread: a handler runs up to its    *)
(* next await in one step, and the continuation after an await runs in one *)
(* step when the awaited promise settles.  `await response.json()` follows *)
(* `await fetch` without touching any state in between, so the two are one *)
(* settlement whose outcome says how both ended.  The state setters are    *)
(* translated as written in the source (functional updates applied in the  *)
(* step that calls them), also in the continuations that run after the    *)
(* effect's cleanup.  createdAt (a wall-clock stamp used for display only) *)
(* is left out of the session record.                                      *)
(***************************************************************************)
EXTENDS Naturals, Sequences, FiniteSets

\* ------------------------------------------------------------------ bounds
MaxLaunch == 2      \* launchBrowser invocations in one behaviour
MaxClose  == 2      \* cleanupSession invocations in one behaviour

\* ------------------------------------------------------------ JSON values
Undefined == "undefined"          \* a missing property / JS undefined
NullBrowser == "null"             \* useState(null) of launchingBrowser

BrowserTypes == {"firefox", "tor"}

SessionIds == {"s1", "s2"}
IdVals     == SessionIds \cup {Undefined}
DetailVals == {"container quota exceeded", "", Undefined}

GenericLaunchError == "Failed to launch browser"
FetchErrorMessage  == "Failed to fetch"
JsonErrorMessage   == "Unexpected token < in JSON at position 0"

Triggers == {"beforeunload", "unload", "dispose"}
Signals  == {"beforeunload", "unload"}

VARIABLES
  sessions,          \* useState([])       : ordered list of session records
  loading,           \* useState(false)
  error,             \* useState('')
  launchingBrowser,  \* useState(null)
  sessionsRef,       \* useRef(new Set())  : membership set of ids
  listeners,         \* window listeners registered by the effect
  mounted,           \* the effect's cleanup has not run
  launchFetch,       \* POST /launch-browser calls awaited, per browserType
  cleanupFetch,      \* DELETE calls awaited by cleanupSession, per id
  runs,              \* the handleBeforeUnload invocation of each trigger:
                     \* started, requests of its batch in flight, resolved
  deleteLog,         \* DELETE /cleanup/{id} requests issued so far, per id:
                     \* "none", "once" or "repeated" (two or more)
  provisioned,       \* ids the remote service returned in success bodies
  tornDown,          \* ids dismissed, or registered when an exit path ran
  unhandled,         \* a handler's promise was rejected (nobody awaits
                     \* it: the window gets an unhandledrejection)
  nLaunch,
  nClose

vars == << sessions, loading, error, launchingBrowser, sessionsRef, listeners,
           mounted, launchFetch, cleanupFetch, runs, deleteLog,
           provisioned, tornDown, unhandled, nLaunch, nClose >>

\* ----------------------------------------------------------------- helpers
Falsy(v) == v \in {Undefined, ""}

ListIds(list) == { list[i].id : i \in 1..Len(list) }

NoRun == [started |-> FALSE, pending |-> 0, resolved |-> FALSE]

Init ==
  /\ sessions = << >>
  /\ loading = FALSE
  /\ error = ""
  /\ launchingBrowser = NullBrowser
  /\ sessionsRef = {}
  /\ listeners = Signals
  /\ mounted = TRUE
  /\ launchFetch = [b \in BrowserTypes |-> 0]
  /\ cleanupFetch = [i \in IdVals |-> 0]
  /\ runs = [t \in Triggers |-> NoRun]
  /\ deleteLog = [i \in IdVals |-> "none"]
  /\ provisioned = {}
  /\ tornDown = {}
  /\ unhandled = FALSE
  /\ nLaunch = 0
  /\ nClose = 0

\* The document is still there: its unload handlers have not run.  Once they
\* have, no handler or continuation of this page runs again.
PageAlive == ~runs["unload"].started

\* The page still shows the UI: the document is there and App is mounted.
UiAlive == PageAlive /\ mounted

\* ------------------------------------------------------------ launchBrowser
\* BrowserOption: onClick={available && !isLaunching ? onClick : undefined}
CanClickLaunch(browserType) ==
  /\ browserType \in BrowserTypes
  /\ launchingBrowser # browserType

LaunchBrowser(browserType) ==
  /\ UiAlive
  /\ CanClickLaunch(browserType)
  /\ nLaunch < MaxLaunch
  /\ nLaunch' = nLaunch + 1
  /\ loading' = TRUE
  /\ launchingBrowser' = browserType
  /\ error' = ""
  /\ launchFetch' = [launchFetch EXCEPT ![browserType] = @ + 1]
  /\ UNCHANGED << sessions, sessionsRef, listeners, mounted, cleanupFetch,
                  runs, deleteLog, provisioned, tornDown, unhandled, nClose >>

\* The ways the awaited POST and the following response.json() can end.
\* Success bodies: two well-formed ones (port is optional) and one that
\* carries neither session_id nor vnc_url.
SuccessBodies ==
  { [session_id |-> "s1", vnc_url |-> "http://host/vnc/s1",
     status |-> "running", port |-> "5901"],
    [session_id |-> "s2", vnc_url |-> "http://host/vnc/s2",
     status |-> "running", port |-> Undefined],
    [session_id |-> Undefined, vnc_url |-> Undefined,
     status |-> "running", port |-> Undefined] }

LaunchOutcomes ==
  {[kind |-> "transport_error"]}
    \cup {[kind |-> "bad_json", ok |-> o] : o \in BOOLEAN}
    \cup {[kind |-> "error_body", detail |-> d] : d \in DetailVals}
    \cup {[kind |-> "success_body", data |-> b] : b \in SuccessBodies}

\* Variant: the detail of the body is ignored.
LaunchErrorMessage_Generic(errorData) == GenericLaunchError

\* new Error(errorData.detail || 'Failed to launch browser').message
LaunchErrorMessage(errorData) ==
  IF Falsy(errorData.detail) THEN GenericLaunchError ELSE errorData.detail

\* The message of whatever the try block threw, for the outcomes that throw.
ThrownMessage(outcome) ==
  CASE outcome.kind = "transport_error" -> FetchErrorMessage
    [] outcome.kind = "bad_json"        -> JsonErrorMessage
    [] outcome.kind = "error_body"      -> LaunchErrorMessage(outcome)

Throws(outcome) == outcome.kind # "success_body"

\* Variant: the port of the response is not copied.
NewSession_NoPort(data, browserType) ==
  [id |-> data.session_id, browser |-> browserType, url |-> data.vnc_url,
   status |-> data.status, port |-> Undefined]

\* const newSession = { id: data.session_id, browser: browserType,
\*   url: data.vnc_url, status: data.status, port: data.port, createdAt }
NewSession(data, browserType) ==
  [id |-> data.session_id, browser |-> browserType, url |-> data.vnc_url,
   status |-> data.status, port |-> data.port]

\* Variant: setSessions(prev => [newSession, ...prev])
AddSession_Prepend(prev, newSession) == << newSession >> \o prev

\* setSessions(prev => [...prev, newSession])
AddSession(prev, newSession) == Append(prev, newSession)

\* sessionsRef.current.add(data.session_id)
RefAdd(ref, sessionId) == ref \cup {sessionId}

\* Variant: no finally block, the two slots are reset at the end of the try
\* block only.
LaunchSettle_NoFinally(browserType, outcome) ==
  /\ PageAlive
  /\ launchFetch[browserType] > 0
  /\ launchFetch' = [launchFetch EXCEPT ![browserType] = @ - 1]
  /\ IF Throws(outcome)
       THEN /\ error' = ThrownMessage(outcome)
            /\ UNCHANGED << sessions, sessionsRef, provisioned,
                            loading, launchingBrowser >>
       ELSE /\ sessions' = AddSession(sessions, NewSession(outcome.data, browserType))
            /\ sessionsRef' = RefAdd(sessionsRef, outcome.data.session_id)
            /\ provisioned' = provisioned \cup ({outcome.data.session_id} \cap SessionIds)
            /\ loading' = FALSE
            /\ launchingBrowser' = NullBrowser
            /\ UNCHANGED error
  /\ UNCHANGED << listeners, mounted, cleanupFetch, runs, deleteLog,
                  tornDown, unhandled, nLaunch, nClose >>

\* The continuation of launchBrowser after its awaits: the rest of the try
\* block or the catch block, then the finally block.
LaunchSettle(browserType, outcome) ==
  /\ PageAlive
  /\ launchFetch[browserType] > 0
  /\ launchFetch' = [launchFetch EXCEPT ![browserType] = @ - 1]
  /\ IF Throws(outcome)
       THEN /\ error' = ThrownMessage(outcome)
            /\ UNCHANGED << sessions, sessionsRef, provisioned >>
       ELSE /\ sessions' = AddSession(sessions, NewSession(outcome.data, browserType))
            /\ sessionsRef' = RefAdd(sessionsRef, outcome.data.session_id)
            /\ provisioned' = provisioned \cup ({outcome.data.session_id} \cap SessionIds)
            /\ UNCHANGED error
  /\ loading' = FALSE
  /\ launchingBrowser' = NullBrowser
  /\ UNCHANGED << listeners, mounted, cleanupFetch, runs, deleteLog,
                  tornDown, unhandled, nLaunch, nClose >>

\* ErrorAlert is rendered when error is truthy; onDismiss={() => setError('')}
DismissError ==
  /\ UiAlive
  /\ error # ""
  /\ error' = ""
  /\ UNCHANGED << sessions, loading, launchingBrowser, sessionsRef, listeners,
                  mounted, launchFetch, cleanupFetch, runs, deleteLog,
                  provisioned, tornDown, unhandled, nLaunch, nClose >>

\* ----------------------------------------------------------- cleanupSession
\* How an awaited DELETE ends: fetch fulfils for every HTTP status and
\* rejects on a transport error only.
DeleteOutcomes == {"ok", "status_error", "transport_error"}
\* Variant: only a response with response.ok counts as done.
Fulfils_OkOnly(outcome) == outcome = "ok"

Fulfils(outcome) == outcome # "transport_error"

\* The log entry of an id after one more DELETE request for it.
OnceMore(entry) == IF entry = "none" THEN "once" ELSE "repeated"

\* One more DELETE /cleanup/{id} request issued for each id of ids.
Issue(log, ids) ==
  [i \in IdVals |-> IF i \in ids THEN OnceMore(log[i]) ELSE log[i]]

\* Variant: prev.splice(prev.findIndex(s => s.id === sessionId), 1); for an
\* id that is not in the list the index is -1 and the last entry goes.
RemoveSession_Splice(prev, sessionId) ==
  IF sessionId \in ListIds(prev)
    THEN SelectSeq(prev, LAMBDA s : s.id # sessionId)
    ELSE SubSeq(prev, 1, Len(prev) - 1)

\* setSessions(prev => prev.filter(s => s.id !== sessionId))
RemoveSession(prev, sessionId) == SelectSeq(prev, LAMBDA s : s.id # sessionId)

\* Variant: the set entry is never deleted.
RefDelete_Forgotten(ref, sessionId) == ref

\* sessionsRef.current.delete(sessionId)
RefDelete(ref, sessionId) == ref \ {sessionId}

\* Variant: the registry entry is removed before the DELETE is awaited.
CleanupSession_Optimistic(sessionId) ==
  /\ mounted
  /\ ~runs["unload"].started
  /\ sessionId \in ListIds(sessions)
  /\ nClose < MaxClose
  /\ nClose' = nClose + 1
  /\ cleanupFetch' = [cleanupFetch EXCEPT ![sessionId] = @ + 1]
  /\ deleteLog' = Issue(deleteLog, {sessionId})
  /\ tornDown' = tornDown \cup {sessionId}
  /\ sessions' = RemoveSession(sessions, sessionId)
  /\ sessionsRef' = RefDelete(sessionsRef, sessionId)
  /\ UNCHANGED << loading, error, launchingBrowser, listeners, mounted,
                  launchFetch, runs, provisioned, unhandled, nLaunch >>

\* Variant: no catch block, the rejection of the awaited DELETE goes on to
\* the caller.
CleanupSessionRejects_Uncaught(outcome) == ~Fulfils(outcome)

\* try { await fetch(..); .. } catch (err) { console.error(..) }: the catch
\* block takes the rejection of the awaited DELETE and only logs it, so the
\* promise of cleanupSession is never rejected.
CleanupSessionRejects(outcome) == FALSE

\* BrowserSession: onClick={() => onClose(session.id)}; cleanupSession runs
\* up to its await, i.e. it issues the DELETE request.
CleanupSession(sessionId) ==
  /\ UiAlive
  /\ sessionId \in ListIds(sessions)
  /\ nClose < MaxClose
  /\ nClose' = nClose + 1
  /\ cleanupFetch' = [cleanupFetch EXCEPT ![sessionId] = @ + 1]
  /\ deleteLog' = Issue(deleteLog, {sessionId})
  /\ tornDown' = tornDown \cup {sessionId}
  /\ UNCHANGED << sessions, loading, error, launchingBrowser, sessionsRef,
                  listeners, mounted, launchFetch, runs, provisioned,
                  unhandled, nLaunch >>

\* Variant: the catch block also shows the failure, setError(err.message).
CleanupSettle_Surfacing(sessionId, outcome) ==
  /\ PageAlive
  /\ cleanupFetch[sessionId] > 0
  /\ cleanupFetch' = [cleanupFetch EXCEPT ![sessionId] = @ - 1]
  /\ IF Fulfils(outcome)
       THEN /\ sessions' = RemoveSession(sessions, sessionId)
            /\ sessionsRef' = RefDelete(sessionsRef, sessionId)
            /\ UNCHANGED error
       ELSE /\ error' = FetchErrorMessage
            /\ UNCHANGED << sessions, sessionsRef >>
  /\ unhandled' = (unhandled \/ CleanupSessionRejects(outcome))
  /\ UNCHANGED << loading, launchingBrowser, listeners, mounted,
                  launchFetch, runs, deleteLog, provisioned, tornDown,
                  nLaunch, nClose >>

\* The continuation of cleanupSession after its await.
CleanupSettle(sessionId, outcome) ==
  /\ PageAlive
  /\ cleanupFetch[sessionId] > 0
  /\ cleanupFetch' = [cleanupFetch EXCEPT ![sessionId] = @ - 1]
  /\ IF Fulfils(outcome)
       THEN /\ sessions' = RemoveSession(sessions, sessionId)
            /\ sessionsRef' = RefDelete(sessionsRef, sessionId)
       ELSE UNCHANGED << sessions, sessionsRef >>
  /\ unhandled' = (unhandled \/ CleanupSessionRejects(outcome))
  /\ UNCHANGED << loading, error, launchingBrowser, listeners, mounted,
                  launchFetch, runs, deleteLog, provisioned, tornDown,
                  nLaunch, nClose >>

\* ------------------------------------------------------- handleBeforeUnload
\* Variant: nothing is dispatched.
CleanupPromises_None(ref) == {}

\* Variant: only the first id of the set gets a request.
CleanupPromises_FirstOnly(ref) ==
  IF ref = {} THEN {} ELSE {CHOOSE x \in ref : TRUE}

\* Array.from(sessionsRef.current).map(sessionId => fetch(..DELETE..)):
\* the ids a request is dispatched for, one per member of the set.
CleanupPromises(ref) == ref

\* The state of Promise.all over the requests of a batch, given how many
\* are still pending and whether one has been rejected: rejected as soon as
\* one input is rejected, fulfilled once all inputs are fulfilled.
PromiseAll(pending, rejected) ==
  IF rejected THEN "rejected"
  ELSE IF pending = 0 THEN "fulfilled"
  ELSE "pending"

\* try { await Promise.all(cleanupPromises) } catch (err) { console.error }:
\* a rejected Promise.all is caught and logged, so the promise of
\* handleBeforeUnload is never rejected.
HandleBeforeUnloadRejects(promiseAll) == FALSE

\* handleBeforeUnload up to its await (and past it when nothing is pending).
HandleBeforeUnload(trigger) ==
  /\ runs' = [runs EXCEPT ![trigger] =
                [started |-> TRUE,
                 pending |-> Cardinality(CleanupPromises(sessionsRef)),
                 resolved |-> PromiseAll(Cardinality(CleanupPromises(sessionsRef)),
                                         FALSE) # "pending"]]
  /\ deleteLog' = Issue(deleteLog, CleanupPromises(sessionsRef))
  /\ tornDown' = tornDown \cup sessionsRef

\* Variant: the handler empties the set once the requests are dispatched,
\* sessionsRef.current.clear().
PageExit_Clearing(signal) ==
  /\ signal \in listeners
  /\ PageAlive
  /\ ~runs[signal].started
  /\ HandleBeforeUnload(signal)
  /\ sessionsRef' = {}
  /\ UNCHANGED << sessions, loading, error, launchingBrowser,
                  listeners, mounted, launchFetch, cleanupFetch, provisioned,
                  unhandled, nLaunch, nClose >>

\* window.addEventListener('beforeunload' | 'unload', handleBeforeUnload)
PageExit(signal) ==
  /\ signal \in listeners
  /\ PageAlive
  /\ ~runs[signal].started
  /\ HandleBeforeUnload(signal)
  /\ UNCHANGED << sessions, loading, error, launchingBrowser, sessionsRef,
                  listeners, mounted, launchFetch, cleanupFetch, provisioned,
                  unhandled, nLaunch, nClose >>

\* The effect's cleanup: both listeners removed, handleBeforeUnload() called.
Dispose ==
  /\ PageAlive
  /\ mounted
  /\ mounted' = FALSE
  /\ listeners' = (listeners \ {"beforeunload"}) \ {"unload"}
  /\ HandleBeforeUnload("dispose")
  /\ UNCHANGED << sessions, loading, error, launchingBrowser, sessionsRef,
                  launchFetch, cleanupFetch, provisioned, unhandled,
                  nLaunch, nClose >>

\* One request of a batch settles while handleBeforeUnload still awaits
\* Promise.all; the await resumes (the try block ends or the catch block
\* runs) as soon as Promise.all is settled.  A request that settles after
\* that runs no code of the page and is left in flight.
RunSettle(trigger, outcome) ==
  /\ PageAlive
  /\ runs[trigger].started
  /\ ~runs[trigger].resolved
  /\ runs[trigger].pending > 0
  /\ LET pending == runs[trigger].pending - 1
     IN  runs' = [runs EXCEPT ![trigger] =
                    [started |-> TRUE,
                     pending |-> pending,
                     resolved |-> PromiseAll(pending, ~Fulfils(outcome)) # "pending"]]
  /\ unhandled' = (unhandled \/
                    HandleBeforeUnloadRejects(PromiseAll(runs[trigger].pending - 1,
                                                         ~Fulfils(outcome))))
  /\ UNCHANGED << sessions, loading, error, launchingBrowser, sessionsRef,
                  listeners, mounted, launchFetch, cleanupFetch, deleteLog,
                  provisioned, tornDown, nLaunch, nClose >>

\* --------------------------------------------------------------------- Next
Next ==
  \/ \E b \in BrowserTypes : LaunchBrowser(b)
  \/ \E b \in BrowserTypes, o \in LaunchOutcomes : LaunchSettle(b, o)
  \/ DismissError
  \/ \E i \in IdVals : CleanupSession(i)
  \/ \E i \in IdVals, o \in DeleteOutcomes : CleanupSettle(i, o)
  \/ \E s \in Signals : PageExit(s)
  \/ Dispose
  \/ \E t \in Triggers, o \in DeleteOutcomes : RunSettle(t, o)

Spec == Init /\ [][Next]_vars

\* The event loop runs the continuation of a launchBrowser call once its
\* awaited POST has settled: as long as the document is there, a pending
\* launch whose request settles is resumed.
FairSpec == Spec /\ WF_vars(\E b \in BrowserTypes, o \in LaunchOutcomes : LaunchSettle(b, o))

TypeOK ==
  /\ loading \in BOOLEAN
  /\ unhandled \in BOOLEAN
  /\ launchingBrowser \in BrowserTypes \cup {NullBrowser}
  /\ sessionsRef \subseteq IdVals
  /\ Len(sessions) <= MaxLaunch
\* ===================================================================== claims
RegistryUnchanged == sessions' = sessions /\ sessionsRef' = sessionsRef

\* The step issues one DELETE request for id.
IssuesDelete(id) ==
  deleteLog'[id] = IF deleteLog[id] = "none" THEN "once" ELSE "repeated"

Registered(id) == id \in ListIds(sessions) \/ id \in sessionsRef

C2_DualConsistency == ListIds(sessions) = sessionsRef

\* C2 witness: after launches, a close that removed a session and a closeAll
\* run, a session is still registered.
C2_Witness ==
  /\ Len(sessions) > 0
  /\ nClose > 0
  /\ Len(sessions) < nLaunch
  /\ \E t \in Triggers : runs[t].started

\* C3 (as stated): a closeAll run is resolved only when none of the requests
\* it dispatched is still pending.
C3_ResolvesAfterAllSettled ==
  \A t \in Triggers :
    runs[t].resolved => runs[t].pending = 0

\* C4 (as stated): once a session has been dismissed or an exit path ran with
\* it registered, exactly one DELETE has been issued for its id.
C4_ExactlyOnce == \A id \in tornDown : deleteLog[id] = "once"

\* C4 (amended): ... at least one DELETE has been issued for its id.
C4_AtLeastOnce == \A id \in tornDown : deleteLog[id] # "none"

\* C4 witness: a session was dismissed and the page was then unloaded with a
\* session registered.
C4_Witness ==
  /\ nClose > 0
  /\ runs["unload"].started
  /\ runs["unload"].pending > 0
  /\ \E id \in tornDown : deleteLog[id] = "repeated"

\* The coordinator's lifetime has ended and no launch is awaited any more.
LifetimeOver ==
  /\ ~mounted \/ runs["unload"].started
  /\ \A b \in BrowserTypes : launchFetch[b] = 0

\* C5 (as stated, in the form a finite run refutes): once the coordinator's
\* lifetime is over, a DELETE has been issued for every provisioned session.
C5_EveryProvisionedTornDown ==
  LifetimeOver => \A id \in provisioned : deleteLog[id] # "none"

\* C6 (as stated): no session of the registry has a missing or empty id or
\* access URL.
C6_NoMalformedSession ==
  /\ \A i \in 1..Len(sessions) : ~Falsy(sessions[i].id) /\ ~Falsy(sessions[i].url)
  /\ \A id \in sessionsRef : ~Falsy(id)

\* C7: a launch that ends by a transport error, or by a non-success status
\* whose body carries a detail string, leaves list and set unchanged; in the
\* second case the surfaced error is the detail string.
C7_AtomicLaunchFailure ==
  [][\A b \in BrowserTypes :
       /\ LaunchSettle(b, [kind |-> "transport_error"]) => RegistryUnchanged
       /\ \A d \in DetailVals \ {"", Undefined} :
            LaunchSettle(b, [kind |-> "error_body", detail |-> d])
              => RegistryUnchanged /\ error' = d]_vars

\* C7 witness: a launch failed with a detail string while a session was
\* registered.
C7_Witness ==
  /\ error = "container quota exceeded"
  /\ Len(sessions) > 0
  /\ \A b \in BrowserTypes : launchFetch[b] = 0

C9_NoDuplicateIds ==
  \A i, j \in 1..Len(sessions) : i # j => sessions[i].id # sessions[j].id

\* C10: a closeAll run issues one DELETE for each id that is in the membership
\* set when it starts and none for any other id, and all of them are in
\* flight when the last has been dispatched.
C10_BulkDispatch ==
  [][\A t \in Triggers :
       (~runs[t].started /\ runs'[t].started) =>
         /\ runs'[t].pending = Cardinality(sessionsRef)
         /\ \A i \in IdVals :
              IF i \in sessionsRef THEN IssuesDelete(i)
                                    ELSE deleteLog'[i] = deleteLog[i]]_vars

\* C10 witness: a run dispatched two requests and both are pending.
C10_Witness ==
  \E t \in Triggers :
    /\ runs[t].started
    /\ runs[t].pending = 2

\* C11 Idempotent removal: when the DELETE of a close(id) settles while id
\* is not registered any more (a second close of the same id), the list and
\* the set stay as the first close left them and no rejection reaches the
\* caller; when it is fulfilled while id is registered, exactly the entries
\* of id leave the list, in place, and id leaves the set.  So two closes of
\* an id end in the state one close ends in.
C11_IdempotentRemoval ==
  [][\A id \in IdVals, o \in DeleteOutcomes :
       CleanupSettle(id, o) =>
         /\ ~unhandled'
         /\ ~Registered(id) => RegistryUnchanged
         /\ Fulfils(o) =>
              /\ sessions' = SelectSeq(sessions, LAMBDA s : s.id # id)
              /\ sessionsRef' = sessionsRef \ {id}]_vars

\* Two closes of one id have both settled, the id is gone and another
\* session is still listed.
C11_Witness ==
  /\ \A t \in Triggers : ~runs[t].started
  /\ Len(sessions) > 0
  /\ \E id \in SessionIds :
       /\ deleteLog[id] = "repeated"
       /\ cleanupFetch[id] = 0
       /\ ~Registered(id)

\* C12 Atomic launch success: when a launch of browserType resolves with a
\* success body that carries a session_id and a vnc_url, the list is the old
\* list with one entry appended; the entry's id, browser, url, status and
\* port are the body's session_id, browserType, the body's vnc_url, status
\* and port; the set gains session_id and nothing else.
C12_AtomicLaunchSuccess ==
  [][\A b \in BrowserTypes, body \in SuccessBodies :
       ( /\ ~Falsy(body.session_id)
         /\ ~Falsy(body.vnc_url)
         /\ LaunchSettle(b, [kind |-> "success_body", data |-> body]) )
       => /\ Len(sessions') = Len(sessions) + 1
          /\ SubSeq(sessions', 1, Len(sessions)) = sessions
          /\ sessions'[Len(sessions')].id = body.session_id
          /\ sessions'[Len(sessions')].browser = b
          /\ sessions'[Len(sessions')].url = body.vnc_url
          /\ sessions'[Len(sessions')].status = body.status
          /\ sessions'[Len(sessions')].port = body.port
          /\ sessionsRef' = sessionsRef \cup {body.session_id}]_vars

\* A tor launch resolved with the body of s1 (port 5901) while s2 was
\* already registered.
C12_Witness ==
  /\ Len(sessions) = 2
  /\ sessions[1].id = "s2"
  /\ sessions[2] = [id |-> "s1", browser |-> "tor",
                    url |-> "http://host/vnc/s1", status |-> "running",
                    port |-> "5901"]
  /\ sessionsRef = {"s1", "s2"}

\* C13 Launch error message fallback: when a launch resolves with a
\* non-success response, the surfaced error is the detail string of the body
\* when the body carries a non-empty one, and the fixed generic message in
\* every other case: detail absent, detail empty, body not parseable.
C13_GenericFallback ==
  [][\A b \in BrowserTypes, o \in LaunchOutcomes :
       ( /\ \/ o.kind = "error_body"
            \/ o.kind = "bad_json" /\ ~o.ok
         /\ LaunchSettle(b, o) )
       => error' = IF o.kind = "error_body" /\ ~Falsy(o.detail)
                     THEN o.detail
                     ELSE GenericLaunchError]_vars

\* C14 Cleanup errors never propagate: no step leaves a rejected promise of
\* cleanupSession or handleBeforeUnload behind, whatever the outcome of the
\* DELETE requests, and a step of either handler (a DELETE awaited by
\* cleanupSession is issued or settles, a handleBeforeUnload run starts or
\* one of its requests settles) leaves error, loading and launchingBrowser
\* as they were.
C14_CleanupErrorsContained ==
  [][/\ ~unhandled'
     /\ (cleanupFetch' # cleanupFetch \/ runs' # runs)
          => UNCHANGED << error, loading, launchingBrowser >>]_vars

\* One launch succeeded and one failed; a close of the listed session has
\* settled without removing it (transport error) and the disposal's run is
\* over, the launch error is still shown.
C14_Witness ==
  /\ error # ""
  /\ nLaunch = 2
  /\ Len(sessions) = 1
  /\ nClose > 0
  /\ \A id \in IdVals : cleanupFetch[id] = 0
  /\ \A b \in BrowserTypes : launchFetch[b] = 0
  /\ runs["dispose"].resolved
  /\ sessionsRef # {}

\* C15 Launching indicator covers the pending launch: as long as the POST
\* of some launch is awaited, loading is true and launchingBrowser names a
\* browser type, also when several launches overlap.
C15_IndicatorCoversPending ==
  (\E b \in BrowserTypes : launchFetch[b] > 0)
    => loading /\ launchingBrowser # NullBrowser

\* The step is a dismissal of the error alert: the message is cleared and
\* no call is issued or settled.
DismissStep ==
  /\ error' = ""
  /\ UNCHANGED << launchFetch, cleanupFetch, runs, nLaunch >>

\* The step is the invocation of a new launch, which clears the message.
NewLaunchStep == error' = "" /\ nLaunch' = nLaunch + 1

\* C16 Launch error persistence (as stated): a displayed error message
\* changes only by a dismissal or by the invocation of a new launch; no
\* other step, the resolution of an already pending launch included,
\* changes or clears it.
C16_OnlyDismissOrNewLaunch ==
  [][(error # "" /\ error' # error) => DismissStep \/ NewLaunchStep]_vars

\* C16 Launch error persistence (amended): a displayed error message changes
\* only by a dismissal, by the invocation of a new launch, or by the failed
\* resolution of another launch that was already pending, which replaces it
\* with its own message and inserts nothing; a successful resolution, a
\* close and a handleBeforeUnload run leave it unchanged.
C16_ErrorPersistence ==
  [][(error # "" /\ error' # error)
       => \/ DismissStep
          \/ NewLaunchStep
          \/ /\ \E b \in BrowserTypes : launchFetch'[b] = launchFetch[b] - 1
             /\ error' # ""
             /\ RegistryUnchanged]_vars

\* An error is displayed while another launch is still pending and a
\* page-exit run has started.
C16_Witness ==
  /\ error # ""
  /\ \E b \in BrowserTypes : launchFetch[b] > 0
  /\ runs["beforeunload"].started

\* C17 Insertion order: a step changes the list in one of two ways only.
\* The successful resolution of a launch puts its session after all the
\* sessions already listed, so the list is in the order the launches
\* resolved; the settlement of a close takes the entries of one id out and
\* leaves the others in their order.
C17_InsertionOrder ==
  [][\/ sessions' = sessions
     \/ /\ \E b \in BrowserTypes : launchFetch'[b] = launchFetch[b] - 1
        /\ Len(sessions') = Len(sessions) + 1
        /\ \A i \in 1..Len(sessions) : sessions'[i] = sessions[i]
     \/ \E id \in IdVals :
          /\ cleanupFetch'[id] = cleanupFetch[id] - 1
          /\ sessions' = SelectSeq(sessions, LAMBDA s : s.id # id)]_vars

\* Two sessions are listed, the one launched as tor first, and a close has
\* been invoked.
C17_Witness ==
  /\ Len(sessions) = 2
  /\ sessions[1].id = "s1" /\ sessions[1].browser = "tor"
  /\ sessions[2].id = "s2" /\ sessions[2].browser = "firefox"
  /\ nClose > 0

\* C18 A handleBeforeUnload run leaves the registry alone: the step that
\* starts a run (page-exit signal or disposal) and every step in which one
\* of its DELETE requests settles, fulfilled or rejected, changes neither
\* the list nor the set; the next run finds the same ids in the set.
C18_BulkCloseKeepsRegistry ==
  [][\A t \in Triggers : runs'[t] # runs[t] => RegistryUnchanged]_vars

\* The beforeunload run and then the unload run each dispatched requests
\* for the same two registered ids, which are still registered.
C18_Witness ==
  /\ runs["beforeunload"].started
  /\ runs["unload"].started
  /\ runs["unload"].pending = 2
  /\ Cardinality(sessionsRef) = 2
  /\ Len(sessions) = 2
  /\ \A id \in sessionsRef : deleteLog[id] = "repeated"

NoLaunchPending == \A b \in BrowserTypes : launchFetch[b] = 0

\* C19 Every launch attempt terminates and cleans up its indicator.  With
\* every awaited POST settling in the page (it cannot once the document is
\* unloaded): after every moment there is one at which every launch pending
\* before has been resolved; a resolution is exactly one of Succeeded (one session appended,
\* error untouched) and Failed (a non-empty error surfaced, list and set
\* untouched); and whenever no launch is pending, loading is false and
\* launchingBrowser is null.
C19_LaunchTerminates ==
  /\ []<>(NoLaunchPending \/ ~PageAlive)
  /\ [][\A b \in BrowserTypes :
          launchFetch'[b] < launchFetch[b]
            => \/ /\ Len(sessions') = Len(sessions) + 1
                  /\ error' = error
               \/ /\ RegistryUnchanged
                  /\ error' # ""]_vars
  /\ [](NoLaunchPending => ~loading /\ launchingBrowser = NullBrowser)

\* Two launches are over, one as Succeeded and one as Failed with the
\* generic message; both slots are reset.
C19_Witness ==
  /\ nLaunch = 2
  /\ NoLaunchPending
  /\ Len(sessions) = 1
  /\ error = GenericLaunchError
  /\ ~loading
  /\ launchingBrowser = NullBrowser

====
